---------------------------- MODULE Spec2Model ----------------------------
(***************************************************************************)
(* Applicant prioritisation tool (src/app.py): the text heuristics, the    *)
(* point model of score_row, and the de-duplication block of the script.   *)
(*                                                                         *)
(* Text is modelled character by character: a Python str is a sequence of  *)
(* one-character strings, so that strip(), lower() and the substring test  *)
(* "k in t" are computed as Python computes them.  The two non-str cell    *)
(* values are None (row.get of a column the sheet does not have) and NaN   *)
(* (an empty cell read with dtype=str).                                    *)
(***************************************************************************)
EXTENDS Integers, Sequences, FiniteSets, TLC

VARIABLES
    pc,            \* position of the script / of the function under study
    columns,       \* df.columns, of the columns the dedup block looks for
    df,            \* the DataFrame: a sequence of rows, in frame order
    df_before_dedup, \* df.copy() taken when the dedup block starts
    dedup_count,   \* len(df_before_dedup) - len(df)
    df_scored,     \* the results of df.apply(score_row, axis=1), in df order
    current_year,  \* date.today().year as last read by normalize_age (0: not read yet)
    arg,           \* argument of the pure function under study
    ret            \* its return value

vars == << pc, columns, df, df_before_dedup, dedup_count, df_scored, current_year, arg, ret >>

-----------------------------------------------------------------------------
(* Python values *)

None == << "None" >>
NaN  == << "NaN" >>

\* isinstance(value, str)
IsStr(value) == value # None /\ value # NaN

UpperChars == << "A","B","C","D","E","F","G","H","I","J","K","L","M",
                 "N","O","P","Q","R","S","T","U","V","W","X","Y","Z" >>
LowerChars == << "a","b","c","d","e","f","g","h","i","j","k","l","m",
                 "n","o","p","q","r","s","t","u","v","w","x","y","z" >>
Whitespace == { " ", "\t", "\n" }
Digits     == << "0","1","2","3","4","5","6","7","8","9" >>

\* str.lower()
LowerChar(c) ==
    IF \E i \in 1..Len(UpperChars) : UpperChars[i] = c
    THEN LowerChars[CHOOSE i \in 1..Len(UpperChars) : UpperChars[i] = c]
    ELSE c
lower(s) == [i \in 1..Len(s) |-> LowerChar(s[i])]

\* str.strip()
strip(s) ==
    LET keep == { i \in 1..Len(s) : s[i] \notin Whitespace }
    IN  IF keep = {} THEN << >>
        ELSE LET lo == CHOOSE i \in keep : \A j \in keep : i <= j
                 hi == CHOOSE i \in keep : \A j \in keep : i >= j
             IN  SubSeq(s, lo, hi)

\* k in t   (substring test; the empty string is in every string)
In(k, t) ==
    \E i \in 1..(Len(t) - Len(k) + 1) : SubSeq(t, i, i + Len(k) - 1) = k

\* any(k in t for k in keywords)
AnyIn(keywords, t) == \E n \in 1..Len(keywords) : In(keywords[n], t)

\* s1 + " " + s2
Space == << " " >>

-----------------------------------------------------------------------------
(* CONFIG *)

\* date.today().year: the tool may be run in one year or the next
Years == { 2025, 2026 }

SELF_SPONSOR_WEIGHT               == 18
FAMILY_SUPPORT_WEIGHT             == 28
PRIVATE_LOAN_WEIGHT               == 24
EXTERNAL_SCHOLAR_CONFIRMED_WEIGHT == 14
EXTERNAL_SCHOLAR_PLANNED_WEIGHT   == 8
ASU_SCHOLAR_PENALTY               == -15
REGION_BONUS                      == 40

\* EUROPE_COUNTRIES
EUROPE_COUNTRIES ==
    << <<"u","n","i","t","e","d"," ","k","i","n","g","d","o","m">>, <<"u","k">>,
       <<"e","n","g","l","a","n","d">>, <<"i","r","e","l","a","n","d">>,
       <<"g","e","r","m","a","n","y">>, <<"f","r","a","n","c","e">>, <<"i","t","a","l","y">>,
       <<"s","p","a","i","n">>, <<"p","o","r","t","u","g","a","l">>,
       <<"n","e","t","h","e","r","l","a","n","d","s">>, <<"b","e","l","g","i","u","m">>,
       <<"s","w","e","d","e","n">>, <<"n","o","r","w","a","y">>,
       <<"d","e","n","m","a","r","k">>, <<"f","i","n","l","a","n","d">>,
       <<"s","w","i","t","z","e","r","l","a","n","d">>, <<"a","u","s","t","r","i","a">>,
       <<"p","o","l","a","n","d">>, <<"g","r","e","e","c","e">>, <<"c","z","e","c","h">>,
       <<"h","u","n","g","a","r","y">>, <<"r","o","m","a","n","i","a">>,
       <<"i","c","e","l","a","n","d">> >>

\* CARIBBEAN_COUNTRIES
CARIBBEAN_COUNTRIES ==
    << <<"j","a","m","a","i","c","a">>, <<"h","a","i","t","i">>,
       <<"d","o","m","i","n","i","c","a","n"," ","r","e","p","u","b","l","i","c">>,
       <<"d","r">>, <<"t","r","i","n","i","d","a","d">>,
       <<"t","r","i","n","i","d","a","d"," ","a","n","d"," ","t","o","b","a","g","o">>,
       <<"t","o","b","a","g","o">>, <<"b","a","r","b","a","d","o","s">>,
       <<"b","a","h","a","m","a","s">>, <<"g","r","e","n","a","d","a">>,
       <<"s","t"," ","l","u","c","i","a">>, <<"s","a","i","n","t"," ","l","u","c","i","a">>,
       <<"s","t"," ","v","i","n","c","e","n","t">>,
       <<"s","a","i","n","t"," ","v","i","n","c","e","n","t">>,
       <<"s","t"," ","v","i","n","c","e","n","t"," ","a","n","d"," ","t","h","e"," ","g","r","e","n","a","d","i","n","e","s">>,
       <<"a","n","t","i","g","u","a">>,
       <<"a","n","t","i","g","u","a"," ","a","n","d"," ","b","a","r","b","u","d","a">>,
       <<"s","t"," ","k","i","t","t","s">>, <<"s","a","i","n","t"," ","k","i","t","t","s">>,
       <<"s","t"," ","k","i","t","t","s"," ","a","n","d"," ","n","e","v","i","s">>,
       <<"s","a","i","n","t"," ","k","i","t","t","s"," ","a","n","d"," ","n","e","v","i","s">>,
       <<"d","o","m","i","n","i","c","a">>, <<"c","u","b","a">>,
       <<"p","u","e","r","t","o"," ","r","i","c","o">>,
       <<"g","u","a","d","e","l","o","u","p","e">>,
       <<"m","a","r","t","i","n","i","q","u","e">>, <<"c","a","y","m","a","n">>,
       <<"c","a","y","m","a","n"," ","i","s","l","a","n","d","s">>, <<"t","u","r","k","s">>,
       <<"t","u","r","k","s"," ","a","n","d"," ","c","a","i","c","o","s">>,
       <<"a","r","u","b","a">>, <<"c","u","r","a","c","a","o">>,
       <<"c","u","r","a","c-cedilla","a","o">>, <<"b","o","n","a","i","r","e">>,
       <<"b","e","r","m","u","d","a">>,
       <<"v","i","r","g","i","n"," ","i","s","l","a","n","d","s">>,
       <<"u",".","s","."," ","v","i","r","g","i","n"," ","i","s","l","a","n","d","s">>,
       <<"b","r","i","t","i","s","h"," ","v","i","r","g","i","n"," ","i","s","l","a","n","d","s">>,
       <<"a","n","g","u","i","l","l","a">>, <<"m","o","n","t","s","e","r","r","a","t">> >>

\* SCHOLARSHIP_NEED_KEYWORDS
SCHOLARSHIP_NEED_KEYWORDS ==
    << <<"s","c","h","o","l","a","r","s","h","i","p">>,
       <<"f","i","n","a","n","c","i","a","l"," ","a","i","d">>,
       <<"b","u","r","s","a","r","y">>, <<"c","a","n","'","t"," ","a","f","f","o","r","d">>,
       <<"c","a","n","n","o","t"," ","a","f","f","o","r","d">>,
       <<"n","e","e","d"," ","s","u","p","p","o","r","t">>,
       <<"h","e","l","p"," ","w","i","t","h"," ","f","e","e","s">>,
       <<"h","e","l","p"," ","p","a","y">>, <<"h","e","l","p"," ","m","e"," ","p","a","y">>,
       <<"f","u","n","d"," ","m","y"," ","s","t","u","d","i","e","s">>,
       <<"s","p","o","n","s","o","r"," ","m","e">> >>

\* NEGATIVE_WORDS
NEGATIVE_WORDS ==
    {  << >>, <<"n","o","n","e">>, <<"n","o">>, <<"n","o"," ","s","o","u","r","c","e">>,
       <<"n","o","t","h","i","n","g">>, <<"n","/","a">>, <<"n","a">>, <<"n","i","l">> }

\* has_family_support_text: family_keywords
family_keywords ==
    << <<"p","a","r","e","n","t">>, <<"p","a","r","e","n","t","s">>,
       <<"f","a","m","i","l","y">>, <<"u","n","c","l","e">>, <<"a","u","n","t">>,
       <<"r","e","l","a","t","i","v","e">>, <<"g","u","a","r","d","i","a","n">>,
       <<"g","r","a","n","d">>, <<"s","p","o","u","s","e">>, <<"h","u","s","b","a","n","d">>,
       <<"w","i","f","e">>, <<"b","r","o","t","h","e","r">>, <<"s","i","s","t","e","r">>,
       <<"c","o","u","s","i","n">>, <<"f","a","t","h","e","r">>, <<"m","o","t","h","e","r">> >>

\* has_self_support_text: self_keywords
self_keywords ==
    << <<"s","e","l","f">>, <<"o","w","n"," ","s","a","v","i","n","g","s">>,
       <<"m","y"," ","s","a","v","i","n","g","s">>, <<"s","a","v","i","n","g">>,
       <<"w","o","r","k","i","n","g">>,
       <<"w","o","r","k"," ","a","n","d"," ","s","t","u","d","y">>,
       <<"w","o","r","k"," ","a","n","d"," ","s","c","h","o","o","l","i","n","g">>,
       <<"s","a","l","a","r","y">>, <<"i","n","c","o","m","e">>, <<"j","o","b">>,
       <<"y","e","s">> >>

\* has_private_loan_text: loan_keywords
loan_keywords ==
    << <<"l","o","a","n">>, <<"b","a","n","k">>, <<"c","r","e","d","i","t">>,
       <<"l","e","n","d","e","r">>, <<"s","t","u","d","e","n","t"," ","l","o","a","n">>,
       <<"s","t","u","d","y"," ","l","o","a","n">>, <<"y","e","s">> >>

\* parse_scholarship_text: schol_keywords
schol_keywords ==
    << <<"s","c","h","o","l","a","r">>, <<"b","u","r","s","a","r","y">>,
       <<"g","r","a","n","t">>, <<"n","s","f","a","s">>, <<"s","a","s","s","a">>,
       <<"s","p","o","n","s","o","r">>, <<"s","p","o","n","s","o","r","s","h","i","p">>,
       <<"f","u","n","d">> >>

\* parse_scholarship_text: planned_words
planned_words ==
    << <<"p","l","a","n">>, <<"p","l","a","n","n","i","n","g">>, <<"a","p","p","l","y">>,
       <<"a","p","p","l","y","i","n","g">>, <<"s","e","e","k">>,
       <<"s","e","e","k","i","n","g">>, <<"l","o","o","k","i","n","g">> >>

-----------------------------------------------------------------------------
(* Field heuristics *)

clean_text(value) ==
    IF ~IsStr(value) THEN << >> ELSE lower(strip(value))

has_degree_text(value) ==
    LET t == clean_text(value)
    IN  IF t \in NEGATIVE_WORDS THEN FALSE ELSE t # << >>

has_family_support_text(value) ==
    LET t == clean_text(value)
    IN  IF t \in NEGATIVE_WORDS THEN FALSE
        ELSE IF AnyIn(family_keywords, t) THEN TRUE
        ELSE IF In(<<"y","e","s">>, t) THEN TRUE
        ELSE FALSE

has_self_support_text(value) ==
    LET t == clean_text(value)
    IN  IF t \in NEGATIVE_WORDS THEN FALSE ELSE AnyIn(self_keywords, t)

has_private_loan_text(value) ==
    LET t == clean_text(value)
    IN  IF t \in NEGATIVE_WORDS THEN FALSE ELSE AnyIn(loan_keywords, t)

ScholInfo(c, p, a) ==
    [external_confirmed |-> c, external_planned |-> p, asu_school |-> a]

\* parse_scholarship_text with the planning-word test moved ahead of the
\* institution test.
parse_scholarship_text_plan_first(value) ==
    LET t == clean_text(value)
    IN  IF t \in NEGATIVE_WORDS THEN ScholInfo(FALSE, FALSE, FALSE)
        ELSE IF t \in { <<"y","e","s">>, <<"y">> } THEN ScholInfo(FALSE, TRUE, FALSE)
        ELSE IF ~AnyIn(schol_keywords, t) THEN ScholInfo(FALSE, FALSE, FALSE)
        ELSE IF AnyIn(planned_words, t) THEN ScholInfo(FALSE, TRUE, FALSE)
        ELSE IF \/ In(<<"a","l","l"," ","s","a","i","n","t","s">>, t)
                \/ (In(<<"s","c","h","o","o","l">>, t) /\ In(<<"s","c","h","o","l","a","r">>, t))
                \/ (In(<<"u","n","i","v","e","r","s","i","t","y">>, t)
                      /\ In(<<"s","c","h","o","l","a","r">>, t))
             THEN ScholInfo(FALSE, FALSE, TRUE)
        ELSE ScholInfo(TRUE, FALSE, FALSE)

parse_scholarship_text(value) ==
    LET t == clean_text(value)
    IN  IF t \in NEGATIVE_WORDS THEN ScholInfo(FALSE, FALSE, FALSE)
        ELSE IF t \in { <<"y","e","s">>, <<"y">> } THEN ScholInfo(FALSE, TRUE, FALSE)
        ELSE IF ~AnyIn(schol_keywords, t) THEN ScholInfo(FALSE, FALSE, FALSE)
        ELSE IF \/ In(<<"a","l","l"," ","s","a","i","n","t","s">>, t)
                \/ (In(<<"s","c","h","o","o","l">>, t) /\ In(<<"s","c","h","o","l","a","r">>, t))
                \/ (In(<<"u","n","i","v","e","r","s","i","t","y">>, t)
                      /\ In(<<"s","c","h","o","l","a","r">>, t))
             THEN ScholInfo(FALSE, FALSE, TRUE)
        ELSE IF AnyIn(planned_words, t) THEN ScholInfo(FALSE, TRUE, FALSE)
        ELSE ScholInfo(TRUE, FALSE, FALSE)

-----------------------------------------------------------------------------
(* normalize_age *)

\* return None of normalize_age (every age the function computes is >= 0)
AgeNone == -1

IsDigit(c) == \E i \in 1..Len(Digits) : Digits[i] = c
DigitVal(c) == (CHOOSE i \in 1..Len(Digits) : Digits[i] = c) - 1

\* str.isdigit() on ASCII text
isdigit(s) == Len(s) > 0 /\ \A i \in 1..Len(s) : IsDigit(s[i])

RECURSIVE DigitsToInt(_)
DigitsToInt(s) ==
    IF Len(s) = 0 THEN 0
    ELSE 10 * DigitsToInt(SubSeq(s, 1, Len(s) - 1)) + DigitVal(s[Len(s)])

\* int(s) succeeds: an optional sign and decimal digits
IsIntLiteral(s) ==
    \/ isdigit(s)
    \/ Len(s) > 1 /\ s[1] \in { "+", "-" } /\ isdigit(Tail(s))

\* int(s)
int(s) ==
    IF s[1] = "-" THEN 0 - DigitsToInt(Tail(s))
    ELSE IF s[1] = "+" THEN DigitsToInt(Tail(s))
    ELSE DigitsToInt(s)

\* str.split(): the maximal runs of non-whitespace characters
RECURSIVE split(_)
split(s) ==
    LET t == strip(s)
    IN  IF t = << >> THEN << >>
        ELSE LET ws == { i \in 1..Len(t) : t[i] \in Whitespace }
             IN  IF ws = {} THEN << t >>
                 ELSE LET w == CHOOSE i \in ws : \A j \in ws : i <= j
                      IN  << SubSeq(t, 1, w - 1) >> \o split(SubSeq(t, w + 1, Len(t)))

MonthNames ==
    << <<"j","a","n","u","a","r","y">>, <<"f","e","b","r","u","a","r","y">>,
       <<"m","a","r","c","h">>, <<"a","p","r","i","l">>, <<"m","a","y">>,
       <<"j","u","n","e">>, <<"j","u","l","y">>, <<"a","u","g","u","s","t">>,
       <<"s","e","p","t","e","m","b","e","r">>, <<"o","c","t","o","b","e","r">>,
       <<"n","o","v","e","m","b","e","r">>, <<"d","e","c","e","m","b","e","r">> >>
DayNames ==
    << <<"m","o","n","d","a","y">>, <<"t","u","e","s","d","a","y">>,
       <<"w","e","d","n","e","s","d","a","y">>, <<"t","h","u","r","s","d","a","y">>,
       <<"f","r","i","d","a","y">>, <<"s","a","t","u","r","d","a","y">>,
       <<"s","u","n","d","a","y">> >>

IsLeap(y) == (y % 4 = 0 /\ y % 100 # 0) \/ y % 400 = 0
DaysInMonth(y, m) ==
    IF m = 2 THEN (IF IsLeap(y) THEN 29 ELSE 28)
    ELSE IF m \in { 4, 6, 9, 11 } THEN 30 ELSE 31
MonthNumber(w) == CHOOSE i \in 1..Len(MonthNames) : MonthNames[i] = lower(w)

IsMonthName(w) == \E i \in 1..Len(MonthNames) : MonthNames[i] = lower(w)
IsDayName(w)   == \E i \in 1..Len(DayNames) : DayNames[i] = lower(w)
IsDayNumber(w) == isdigit(w) /\ Len(w) <= 2 /\ DigitsToInt(w) \in 1..31

\* "YYYY-MM-DD"
IsIsoDate(s) ==
    /\ Len(s) = 10
    /\ s[5] = "-" /\ s[8] = "-"
    /\ isdigit(SubSeq(s, 1, 4)) /\ isdigit(SubSeq(s, 6, 7)) /\ isdigit(SubSeq(s, 9, 10))
    /\ DigitsToInt(SubSeq(s, 6, 7)) \in 1..12
    /\ DigitsToInt(SubSeq(s, 9, 10))
         \in 1..DaysInMonth(DigitsToInt(SubSeq(s, 1, 4)), DigitsToInt(SubSeq(s, 6, 7)))

\* "[Weekday] D Month YYYY"
IsLongDate(s) ==
    LET ws  == split(s)
        rel == IF Len(ws) = 4 /\ IsDayName(ws[1]) THEN Tail(ws) ELSE ws
    IN  /\ Len(rel) = 3
        /\ IsDayNumber(rel[1])
        /\ IsMonthName(rel[2])
        /\ isdigit(rel[3]) /\ Len(rel[3]) = 4
        /\ DigitsToInt(rel[1]) <= DaysInMonth(DigitsToInt(rel[3]), MonthNumber(rel[2]))

\* pd.to_datetime(s, errors="raise", dayfirst=True) on one string, for the
\* shapes of text used here: an ISO date, a written-out date, a bare number of
\* four digits (read as a year); anything else raises.  The year of the
\* Timestamp, or ParseError.
ParseError == -1
to_datetime_year(s) ==
    IF IsIsoDate(s) THEN DigitsToInt(SubSeq(s, 1, 4))
    ELSE IF IsLongDate(s) THEN DigitsToInt(split(s)[Len(split(s))])
    ELSE IF isdigit(s) /\ Len(s) = 4 /\ s[1] # "0" THEN DigitsToInt(s)
    ELSE ParseError

\* step 3 of normalize_age: the first whitespace-delimited token of four
\* digits that is a year in 1900..current_year
RECURSIVE YearToken(_, _)
YearToken(tokens, year) ==
    IF Len(tokens) = 0 THEN AgeNone
    ELSE LET token == tokens[1]
         IN  IF /\ isdigit(token) /\ Len(token) = 4
                /\ 1900 <= DigitsToInt(token) /\ DigitsToInt(token) <= year
             THEN year - DigitsToInt(token)
             ELSE YearToken(Tail(tokens), year)

normalize_age(raw, year) ==
    IF ~IsStr(raw) THEN AgeNone
    ELSE
    LET s == strip(raw)
        x == int(s)
        y == to_datetime_year(s)
    IN  IF IsIntLiteral(s) /\ 1900 <= x /\ x <= year THEN year - x
        ELSE IF IsIntLiteral(s) /\ 10 <= x /\ x <= 80 THEN x
        ELSE IF y # ParseError /\ 1900 <= y /\ y <= year THEN year - y
        ELSE YearToken(split(s), year)

-----------------------------------------------------------------------------
(* Point model *)

\* A reason is its text followed by the values formatted into it.
age_degree_points(age, has_degree) ==
    IF age = AgeNone
    THEN [points |-> 0, reasons |-> << <<"Age unknown (no points applied)">> >>]
    ELSE IF has_degree /\ age >= 24
    THEN [points |-> 17, reasons |-> << <<"Has degree and age >= 24">> >>]
    ELSE IF has_degree /\ 21 <= age /\ age <= 23
    THEN [points |-> 12, reasons |-> << <<"Has degree and age 21-23">> >>]
    ELSE IF ~has_degree /\ age >= 24
    THEN [points |-> 7,
          reasons |-> << <<"Age >= 24 without degree (may be financially independent)">> >>]
    ELSE IF has_degree
    THEN [points |-> 0,
          reasons |-> << <<"Has degree but age {age} (<21) - no maturity bonus", age>> >>]
    ELSE [points |-> 0,
          reasons |-> << <<"No degree and age {age} - no maturity bonus", age>> >>]

RegionFlag(top, pts, rs) == [is_region_top |-> top, points |-> pts, reasons |-> rs]

country_priority_flag(country_raw) ==
    IF ~IsStr(country_raw) THEN RegionFlag(FALSE, 0, << >>)
    ELSE
    LET c == lower(strip(country_raw))
    IN  IF In(<<"c","a","n","a","d","a">>, c)
        THEN RegionFlag(TRUE, REGION_BONUS, << <<"From Canada - top priority region">> >>)
        ELSE IF \/ In(<<"u","n","i","t","e","d"," ","s","t","a","t","e","s">>, c)
                \/ In(<<"u","s","a">>, c)
                \/ In(<<"u",".","s",".","a">>, c)
                \/ In(<<"a","m","e","r","i","c","a">>, c)
        THEN RegionFlag(TRUE, REGION_BONUS, << <<"From USA - top priority region">> >>)
        ELSE IF AnyIn(EUROPE_COUNTRIES, c)
        THEN RegionFlag(TRUE, REGION_BONUS, << <<"From Europe - top priority region">> >>)
        ELSE IF AnyIn(CARIBBEAN_COUNTRIES, c)
        THEN RegionFlag(TRUE, REGION_BONUS, << <<"From Caribbean - top priority region">> >>)
        ELSE RegionFlag(FALSE, 0, << >>)

personal_statement_requests_school_scholarship(text) ==
    IF ~IsStr(text) THEN FALSE
    ELSE AnyIn(SCHOLARSHIP_NEED_KEYWORDS, lower(text))

-----------------------------------------------------------------------------
(* score_row *)

\* Python truth value of a cell: None and "" are false, NaN and any other
\* text are true.
Truthy(v) == v # None /\ v # << >>

\* a or b
Or(a, b) == IF Truthy(a) THEN a ELSE b

deg_text(row) == Or(Or(row.Degree, row.Degree2), row.Degree3)

has_family(row) ==
    has_family_support_text(row.FamilySupport) \/ has_family_support_text(row.OtherSources)

\* the three scholarship facts, OR-ed over the two source fields
scholarship_facts(row) ==
    LET third_party_info   == parse_scholarship_text(row.ThirdParty)
        other_sources_info == parse_scholarship_text(row.OtherSources)
    IN  ScholInfo(
          third_party_info.external_confirmed \/ other_sources_info.external_confirmed,
          third_party_info.external_planned \/ other_sources_info.external_planned,
          third_party_info.asu_school \/ other_sources_info.asu_school)

\* the accumulation with the family weight added once per asserting field
RowScore_family_per_field(row, year) ==
    LET f == scholarship_facts(row)
    IN  (IF has_self_support_text(row.SelfSponsorship) THEN SELF_SPONSOR_WEIGHT ELSE 0)
      + (IF has_family_support_text(row.FamilySupport) THEN FAMILY_SUPPORT_WEIGHT ELSE 0)
      + (IF has_family_support_text(row.OtherSources) THEN FAMILY_SUPPORT_WEIGHT ELSE 0)
      + (IF has_private_loan_text(row.PrivateLoan) THEN PRIVATE_LOAN_WEIGHT ELSE 0)
      + (IF f.external_confirmed THEN EXTERNAL_SCHOLAR_CONFIRMED_WEIGHT ELSE 0)
      + (IF f.external_planned THEN EXTERNAL_SCHOLAR_PLANNED_WEIGHT ELSE 0)
      + (IF ASU_SCHOLAR_PENALTY # 0 /\ f.asu_school THEN ASU_SCHOLAR_PENALTY ELSE 0)
      + age_degree_points(normalize_age(row.DOB, year), has_degree_text(deg_text(row))).points
      + country_priority_flag(row.Country).points
      + (IF personal_statement_requests_school_scholarship(row.PersonalStatement)
         THEN -10 ELSE 0)

\* score, as accumulated before the clamp
RowScore(row, year) ==
    LET f == scholarship_facts(row)
    IN  (IF has_self_support_text(row.SelfSponsorship) THEN SELF_SPONSOR_WEIGHT ELSE 0)
      + (IF has_family(row) THEN FAMILY_SUPPORT_WEIGHT ELSE 0)
      + (IF has_private_loan_text(row.PrivateLoan) THEN PRIVATE_LOAN_WEIGHT ELSE 0)
      + (IF f.external_confirmed THEN EXTERNAL_SCHOLAR_CONFIRMED_WEIGHT ELSE 0)
      + (IF f.external_planned THEN EXTERNAL_SCHOLAR_PLANNED_WEIGHT ELSE 0)
      + (IF ASU_SCHOLAR_PENALTY # 0 /\ f.asu_school THEN ASU_SCHOLAR_PENALTY ELSE 0)
      + age_degree_points(normalize_age(row.DOB, year), has_degree_text(deg_text(row))).points
      + country_priority_flag(row.Country).points
      + (IF personal_statement_requests_school_scholarship(row.PersonalStatement)
         THEN -10 ELSE 0)

\* the reasons with the region block placed ahead of the age/degree block
RowReasons_region_first(row, year) ==
    LET f == scholarship_facts(row)
    IN  (IF has_self_support_text(row.SelfSponsorship)
         THEN << <<"Self funding from own work/savings">> >> ELSE << >>)
      \o (IF has_family(row)
          THEN << <<"Parent/Family financial support identified">> >> ELSE << >>)
      \o (IF has_private_loan_text(row.PrivateLoan)
          THEN << <<"Private / bank loan arranged or intended">> >> ELSE << >>)
      \o (IF f.external_confirmed
          THEN << <<"Confirmed scholarship/bursary from external source">> >> ELSE << >>)
      \o (IF f.external_planned /\ EXTERNAL_SCHOLAR_PLANNED_WEIGHT > 0
          THEN << <<"Plans to apply for external scholarship/bursary">> >> ELSE << >>)
      \o (IF ASU_SCHOLAR_PENALTY # 0 /\ f.asu_school
          THEN << <<"Depends on scholarship from ASU/school">> >> ELSE << >>)
      \o country_priority_flag(row.Country).reasons
      \o age_degree_points(normalize_age(row.DOB, year),
                           has_degree_text(deg_text(row))).reasons
      \o (IF personal_statement_requests_school_scholarship(row.PersonalStatement)
          THEN << <<"Personal statement suggests need for ASU scholarship">> >>
          ELSE << >>)

\* reasons, in the order the statements of score_row append them
RowReasons(row, year) ==
    LET f == scholarship_facts(row)
    IN  (IF has_self_support_text(row.SelfSponsorship)
         THEN << <<"Self funding from own work/savings">> >> ELSE << >>)
      \o (IF has_family(row)
          THEN << <<"Parent/Family financial support identified">> >> ELSE << >>)
      \o (IF has_private_loan_text(row.PrivateLoan)
          THEN << <<"Private / bank loan arranged or intended">> >> ELSE << >>)
      \o (IF f.external_confirmed
          THEN << <<"Confirmed scholarship/bursary from external source">> >> ELSE << >>)
      \o (IF f.external_planned /\ EXTERNAL_SCHOLAR_PLANNED_WEIGHT > 0
          THEN << <<"Plans to apply for external scholarship/bursary">> >> ELSE << >>)
      \o (IF ASU_SCHOLAR_PENALTY # 0 /\ f.asu_school
          THEN << <<"Depends on scholarship from ASU/school">> >> ELSE << >>)
      \o age_degree_points(normalize_age(row.DOB, year),
                           has_degree_text(deg_text(row))).reasons
      \o country_priority_flag(row.Country).reasons
      \o (IF personal_statement_requests_school_scholarship(row.PersonalStatement)
          THEN << <<"Personal statement suggests need for ASU scholarship">> >>
          ELSE << >>)

\* score = max(0, min(100, score))
Min(a, b) == IF a <= b THEN a ELSE b
Max(a, b) == IF a >= b THEN a ELSE b
\* the clamp without its lower bound
Clamp_no_floor(score) == Min(100, score)

Clamp(score) == Max(0, Min(100, score))

\* the category decision with "score > 70" for its top thresholds
Category_strict(score, is_region_top) ==
    IF is_region_top
    THEN IF score > 70
         THEN "Top priority (Canada / US / Europe / Caribbean)"
         ELSE "High potential (Canada / US / Europe / Caribbean - funding weaker)"
    ELSE IF score > 70 THEN "Top priority (Financially strong)"
         ELSE IF 50 <= score /\ score < 70 THEN "High potential"
         ELSE IF 35 <= score /\ score < 50 THEN "Medium potential"
         ELSE "Low / scholarship-dependent"

Category(score, is_region_top) ==
    IF is_region_top
    THEN IF score >= 70
         THEN "Top priority (Canada / US / Europe / Caribbean)"
         ELSE "High potential (Canada / US / Europe / Caribbean - funding weaker)"
    ELSE IF score >= 70 THEN "Top priority (Financially strong)"
         ELSE IF 50 <= score /\ score < 70 THEN "High potential"
         ELSE IF 35 <= score /\ score < 50 THEN "Medium potential"
         ELSE "Low / scholarship-dependent"

\* The returned Series.  Reasons is the list that "; ".join writes out, kept as
\* the list.
score_row(row, year) ==
    LET f     == scholarship_facts(row)
        score == Clamp(RowScore(row, year))
    IN  [ ComputedAge |-> normalize_age(row.DOB, year),
          Score       |-> score,
          Category    |-> Category(score, country_priority_flag(row.Country).is_region_top),
          Reasons     |-> RowReasons(row, year),
          HasFamilySupport |-> has_family(row),
          HasSelfSupport   |-> has_self_support_text(row.SelfSponsorship),
          HasPrivateLoan   |-> has_private_loan_text(row.PrivateLoan),
          HasExternalScholarshipConfirmed |-> f.external_confirmed,
          HasExternalScholarshipPlanned   |-> f.external_planned,
          HasASUScholarDependency         |-> f.asu_school ]

-----------------------------------------------------------------------------
(* Free-text inputs: up to MaxWords words, joined by single blanks, as typed *)
(* (plain), with a capital first letter, or with surrounding blanks.         *)

MaxWords == 3

RECURSIVE JoinWords(_)
JoinWords(ws) ==
    IF Len(ws) = 0 THEN << >>
    ELSE IF Len(ws) = 1 THEN ws[1]
    ELSE ws[1] \o Space \o JoinWords(Tail(ws))

Phrases(vocab, n) ==
    { JoinWords(ws) : ws \in UNION { [1..k -> vocab] : k \in 1..n } }

UpperChar(c) ==
    IF \E i \in 1..Len(LowerChars) : LowerChars[i] = c
    THEN UpperChars[CHOOSE i \in 1..Len(LowerChars) : LowerChars[i] = c]
    ELSE c

Styles == { "plain", "capital", "padded" }

Typed(t, style) ==
    CASE style = "plain"   -> t
      [] style = "capital" -> IF t = << >> THEN t ELSE << UpperChar(t[1]) >> \o Tail(t)
      [] style = "padded"  -> Space \o t \o Space

ScholVocab ==
    { <<"n","o">>,
      <<"y","e","s">>,
      <<"y">>,
      <<"s","c","h","o","l","a","r","s","h","i","p">>,
      <<"f","u","n","d">>,
      <<"a","l","l"," ","s","a","i","n","t","s">>,
      <<"s","c","h","o","o","l">>,
      <<"u","n","i","v","e","r","s","i","t","y">>,
      <<"p","l","a","n">>,
      <<"s","e","e","k","i","n","g">> }

ScholInputs ==
    { None, NaN } \cup { Typed(t, st) : t \in Phrases(ScholVocab, MaxWords), st \in Styles }

-----------------------------------------------------------------------------
(* parse_scholarship_text applied to one input *)

Idle ==
    /\ columns = {} /\ df = << >> /\ df_before_dedup = << >>
    /\ dedup_count = 0 /\ df_scored = << >>
    /\ current_year = 0

InitParse ==
    /\ pc = "parse_call"
    /\ arg \in ScholInputs
    /\ ret = None
    /\ Idle

ParseScholarship ==
    /\ pc = "parse_call"
    /\ ret' = parse_scholarship_text(arg)
    /\ pc' = "parse_return"
    /\ UNCHANGED << columns, df, df_before_dedup, dedup_count, df_scored, current_year, arg >>

NextParse == ParseScholarship

SpecParse == InitParse /\ [][NextParse]_vars

-----------------------------------------------------------------------------
(* score_row applied to one row of a sheet that has the scoring columns *)

SelfInputs      ==
    { NaN,
      <<"Y","e","s">> }
FamilyInputs    ==
    { <<"N","o">>,
      <<"P","a","r","e","n","t","s">> }
OtherInputs     ==
    { NaN,
      <<"y","e","s">>,
      <<"F","a","m","i","l","y">>,
      <<"A","l","l"," ","S","a","i","n","t","s"," ","s","c","h","o","l","a","r","s","h","i","p">> }
LoanInputs      ==
    { NaN,
      <<"B","a","n","k"," ","l","o","a","n">> }
ThirdInputs     ==
    { NaN,
      <<"y","e","s">>,
      <<"N","S","F","A","S"," ","b","u","r","s","a","r","y">>,
      <<"s","c","h","o","o","l"," ","s","c","h","o","l","a","r","s","h","i","p">> }
DegreeInputs    ==
    { None,
      NaN,
      << >>,
      <<"B","S","c">>,
      <<" ">> }
Degree2Inputs   ==
    { None,
      <<"M","S","c">> }
Degree3Inputs   ==
    { None,
      <<"P","h","D">> }
DobInputs       ==
    { NaN,
      <<"1","9">>,
      <<"2","0","0","2">> }
CountryInputs   ==
    { <<"N","i","g","e","r","i","a">>,
      <<"B","a","r","b","a","d","o","s">> }
StatementInputs ==
    { NaN,
      <<"I"," ","c","a","n","n","o","t"," ","a","f","f","o","r","d"," ","t","h","e"," ","f","e","e","s">> }

ScoreRows ==
    { [ idx |-> 0, Email |-> NaN, Name |-> NaN, DateCreated |-> None,
        DOB |-> dob, Degree |-> d1, Degree2 |-> d2, Degree3 |-> d3,
        Country |-> c, PersonalStatement |-> ps, SelfSponsorship |-> ss,
        FamilySupport |-> fs, PrivateLoan |-> pl, ThirdParty |-> tp,
        OtherSources |-> os ] :
      dob \in DobInputs, d1 \in DegreeInputs, d2 \in Degree2Inputs, d3 \in Degree3Inputs,
      c \in CountryInputs, ps \in StatementInputs, ss \in SelfInputs,
      fs \in FamilyInputs, pl \in LoanInputs, tp \in ThirdInputs, os \in OtherInputs }

InitScore ==
    /\ pc = "score_call"
    /\ arg \in ScoreRows
    /\ ret = None
    /\ Idle

ScoreRow ==
    /\ pc = "score_call"
    /\ \E year \in Years :
          /\ current_year' = year
          /\ ret' = score_row(arg, year)
    /\ pc' = "score_return"
    /\ UNCHANGED << columns, df, df_before_dedup, dedup_count, df_scored, arg >>

NextScore == ScoreRow

SpecScore == InitScore /\ [][NextScore]_vars

-----------------------------------------------------------------------------
(* normalize_age applied to one Date of Birth cell *)

\* str(n) of a non-negative integer
RECURSIVE str(_)
str(n) ==
    IF n < 10 THEN << Digits[n + 1] >>
    ELSE str(n \div 10) \o << Digits[(n % 10) + 1] >>

\* numbers typed as an age, around the two ends of 10..80
AgeNumbers == { 5, 9, 10, 19, 80, 81 }

\* numbers typed as a year, around 1900, around the years that give the ages
\* 80 and 10, and around the current year
YearNumbers == { 1899, 1900, 1945, 1946, 2002, 2015, 2016, 2017, 2025, 2026, 2027 }

DobShapes == { "bare", "iso", "long", "short", "note" }

\* a year as the forms describe a date of birth
DobText(n, shape) ==
    CASE shape = "bare"  -> str(n)
      [] shape = "iso"   -> str(n) \o <<"-","0","3","-","0","8">>
      [] shape = "long"  -> <<"T","u","e","s","d","a","y"," ","8"," ","M","a","r","c","h"," ">>
                              \o str(n)
      [] shape = "short" -> <<"8"," ","M","a","r","c","h"," ">> \o str(n)
      [] shape = "note"  -> <<"b","o","r","n"," ">> \o str(n)

AgeInputs ==
    { None, NaN, << >>, <<"a","b","c">> }
      \cup { Typed(str(n), st) : n \in AgeNumbers, st \in { "plain", "padded" } }
      \cup { << sign >> \o str(n) : sign \in { "+", "-" }, n \in AgeNumbers }
      \cup { Typed(DobText(n, shape), st) :
               n \in YearNumbers, shape \in DobShapes, st \in { "plain", "padded" } }

InitAge ==
    /\ pc = "age_call"
    /\ arg \in AgeInputs
    /\ ret = None
    /\ Idle

NormalizeAge ==
    /\ pc = "age_call"
    /\ \E year \in Years :
          /\ current_year' = year
          /\ ret' = normalize_age(arg, year)
    /\ pc' = "age_return"
    /\ UNCHANGED << columns, df, df_before_dedup, dedup_count, df_scored, arg >>

NextAge == NormalizeAge

SpecAge == InitAge /\ [][NextAge]_vars

-----------------------------------------------------------------------------
(* The dedup block of the script *)

email_col == "Email"
name_col  == "Name"
dob_col   == "Date of Birth"
time_col  == "Date Created"

\* Values of a datetime64 column: a Timestamp (here to the day) or NaT.
NaT == << "NaT" >>
Timestamp(y, m, d) == << "Timestamp", y, m, d >>
IsTimestamp(v) == Len(v) = 4 /\ v[1] = "Timestamp"
TimeOrd(ts) == ts[2] * 10000 + ts[3] * 100 + ts[4]

\* One cell of pd.to_datetime(df[time_col], errors="coerce"): an ISO date
\* parses, a missing cell and any text that is no date give NaT, and a value
\* that is already a datetime stays.
to_datetime_coerce(v) ==
    IF v = NaT \/ IsTimestamp(v) THEN v
    ELSE IF ~IsStr(v) THEN NaT
    ELSE IF IsIsoDate(v)
    THEN Timestamp(DigitsToInt(SubSeq(v, 1, 4)), DigitsToInt(SubSeq(v, 6, 7)),
                   DigitsToInt(SubSeq(v, 9, 10)))
    ELSE NaT

ParseTimes(rows) ==
    [i \in 1..Len(rows) |-> [rows[i] EXCEPT !.DateCreated = to_datetime_coerce(@)]]

\* df.sort_values(by=time_col): ascending, NaT last (na_position="last").
\* The default kind is quicksort, which is not stable: rows with equal
\* timestamps may come out in any order.  The NaT rows are appended in their
\* frame order.
IsSortOrder(rows, p) ==
    \A k, l \in 1..Len(rows) :
        k < l =>
            LET a == rows[p[k]].DateCreated
                b == rows[p[l]].DateCreated
            IN  /\ ~(a = NaT /\ b # NaT)
                /\ (a # NaT /\ b # NaT) => TimeOrd(a) <= TimeOrd(b)
                /\ (a = NaT /\ b = NaT) => p[k] < p[l]

sort_values(rows) ==
    { [k \in 1..Len(rows) |-> rows[p[k]]] :
        p \in { q \in Permutations(1..Len(rows)) : IsSortOrder(rows, q) } }

\* the rows at the positions `kept`, in frame order, from position i on
RECURSIVE TakeRows(_, _, _)
TakeRows(rows, kept, i) ==
    IF i > Len(rows) THEN << >>
    ELSE (IF i \in kept THEN << rows[i] >> ELSE << >>) \o TakeRows(rows, kept, i + 1)

\* the values of a row in the columns of `subset`
SubsetKey(row, subset) == [k \in 1..Len(subset) |-> row[subset[k]]]

\* a drop_duplicates that looks only at the next row (duplicates are dropped
\* only where they are adjacent)
drop_duplicates_adjacent(rows, subset) ==
    TakeRows(rows,
             { i \in 1..Len(rows) :
                 i = Len(rows)
                   \/ SubsetKey(rows[i + 1], subset) # SubsetKey(rows[i], subset) },
             1)

\* df.drop_duplicates(subset=..., keep="last"): a row stays unless a later row
\* has the same values in the subset (two missing values count as the same)
drop_duplicates(rows, subset) ==
    TakeRows(rows,
             { i \in 1..Len(rows) :
                 \A j \in (i + 1)..Len(rows) :
                     SubsetKey(rows[j], subset) # SubsetKey(rows[i], subset) },
             1)

\* df[email_col].isna() | (df[email_col].str.strip() == "")
no_email_mask(row) ==
    row.Email = NaN \/ (IsStr(row.Email) /\ strip(row.Email) = << >>)

\* df[mask] and df[~mask]
Masked(rows)   == TakeRows(rows, { i \in 1..Len(rows) : no_email_mask(rows[i]) }, 1)
Unmasked(rows) == TakeRows(rows, { i \in 1..Len(rows) : ~no_email_mask(rows[i]) }, 1)

\* steps 2 and 3 of the block, on the frame step 1 left
DedupeSorted(frame, cols) ==
    LET by_email      == IF email_col \in cols
                         THEN drop_duplicates(frame, << "Email" >>) ELSE frame
        df_no_email   == drop_duplicates(Masked(by_email), << "Name", "DOB" >>)
        df_with_email == Unmasked(by_email)
    IN  IF { name_col, dob_col } \subseteq cols
        THEN df_with_email \o df_no_email
        ELSE by_email

\* The frames the block can leave for a frame `rows` with columns `cols`.
DedupBlock(rows, cols) ==
    LET sorted == IF time_col \in cols THEN sort_values(ParseTimes(rows)) ELSE { rows }
    IN  { DedupeSorted(frame, cols) : frame \in sorted }

(* The script: read the upload, run the dedup block, score every row.  The  *)
(* block can be run once more on what it left, as when the sheet it produced *)
(* is put through it again.  Every sheet has the Email, Name and Date of     *)
(* Birth columns; Date Created is optional.                                  *)

MaxRows == 3

\* Cell values of the uploaded sheets.  Two spellings of one address, a blank
\* and a missing address; two applicants; a text that is no date and two dates.
Email1 == <<"A","@","x",".","c","o","m">>
Email2 == <<" ","a","@","x",".","c","o","m"," ">>
Blank  == << " " >>
Ann    == << <<"A","n","n">>, <<"2","0","0","1">> >>
Bob    == << <<"B","o","b">>, <<"1","9">> >>
Times  == { <<"t","b","c">>, <<"2","0","2","4","-","0","1","-","0","5">>, <<"2","0","2","4","-","0","2","-","0","1">> }

\* a row of a sheet with the identity columns only
SheetRow(i, email, person, time) ==
    [ idx |-> i, Email |-> email, Name |-> person[1], DateCreated |-> time,
      DOB |-> person[2], Degree |-> None, Degree2 |-> None, Degree3 |-> None,
      Country |-> None, PersonalStatement |-> None, SelfSponsorship |-> None,
      FamilySupport |-> None, PrivateLoan |-> None, ThirdParty |-> None,
      OtherSources |-> None ]

\* what one submission can hold: an address, or no address and a name and
\* birth date that tell the applicant
Submissions(times) ==
    ({ Email1, Email2 } \X { Ann } \X times) \cup ({ NaN, Blank } \X { Ann, Bob } \X times)

\* the sheets of n rows; the index of a row is its position in the file
Sheets(n, times) ==
    { [i \in 1..n |-> SheetRow(i - 1, c[i][1], c[i][2], c[i][3])] :
        c \in [1..n -> Submissions(times)] }

Init ==
    /\ pc = "upload"
    /\ columns = {} /\ df = << >> /\ df_before_dedup = << >>
    /\ dedup_count = 0 /\ df_scored = << >>
    /\ current_year = 0
    /\ arg = None /\ ret = None

\* pd.read_csv / pd.read_excel of the uploaded file, dtype=str
ReadFile ==
    /\ pc = "upload"
    /\ \E n \in 0..MaxRows, has_time \in BOOLEAN :
          /\ columns' = { email_col, name_col, dob_col }
                          \cup (IF has_time THEN { time_col } ELSE {})
          /\ df' \in Sheets(n, IF has_time THEN Times ELSE { None })
    /\ pc' = "loaded"
    /\ UNCHANGED << df_before_dedup, dedup_count, df_scored, current_year, arg, ret >>

RunDedup(next_pc) ==
    /\ df_before_dedup' = df
    /\ df' \in DedupBlock(df, columns)
    /\ dedup_count' = Len(df) - Len(df')
    /\ pc' = next_pc
    /\ UNCHANGED << columns, df_scored, current_year, arg, ret >>

Dedup ==
    /\ pc = "loaded"
    /\ RunDedup("deduped")

DedupAgain ==
    /\ pc = "deduped"
    /\ RunDedup("deduped_again")

\* results = df.apply(score_row, axis=1)
ScoreApplicants ==
    /\ pc \in { "deduped", "deduped_again" }
    /\ \E year \in Years :
          /\ current_year' = year
          /\ df_scored' = [i \in 1..Len(df) |-> score_row(df[i], year)]
    /\ pc' = "scored"
    /\ UNCHANGED << columns, df, df_before_dedup, dedup_count, arg, ret >>

Next == ReadFile \/ Dedup \/ DedupAgain \/ ScoreApplicants

Spec == Init /\ [][Next]_vars

-----------------------------------------------------------------------------
(* Properties of parse_scholarship_text *)

\* The stages of the precedence, read off the cleaned text.
IsNegative(t)   == t \in NEGATIVE_WORDS
IsBareYes(t)    == t = <<"y","e","s">> \/ t = <<"y">>
HasScholWord(t) == \E n \in 1..Len(schol_keywords) : In(schol_keywords[n], t)
MentionsInstitution(t) ==
    \/ In(<<"a","l","l"," ","s","a","i","n","t","s">>, t)
    \/ /\ In(<<"s","c","h","o","l","a","r">>, t)
       /\ In(<<"s","c","h","o","o","l">>, t) \/ In(<<"u","n","i","v","e","r","s","i","t","y">>, t)
HasPlanWord(t)  == \E n \in 1..Len(planned_words) : In(planned_words[n], t)

FlagCount(info) ==
    (IF info.external_confirmed THEN 1 ELSE 0)
      + (IF info.external_planned THEN 1 ELSE 0)
      + (IF info.asu_school THEN 1 ELSE 0)

\* C8: parse_scholarship_text sets at most one of its three flags, and decides
\* in the order negative word, bare yes/y (planned), no scholarship keyword
\* (nothing), institution (asu_school), planning word (planned), otherwise
\* confirmed; a text with a scholarship keyword, an institution mention and a
\* planning word is asu_school, never planned or confirmed.
C8_ScholarshipPrecedence ==
    pc = "parse_return" =>
        LET t == clean_text(arg)
        IN  /\ FlagCount(ret) <= 1
            /\ IsNegative(t) => FlagCount(ret) = 0
            /\ IsBareYes(t) => ret.external_planned
            /\ (~IsBareYes(t) /\ ~HasScholWord(t)) => FlagCount(ret) = 0
            /\ (HasScholWord(t) /\ MentionsInstitution(t)) => ret.asu_school
            /\ (HasScholWord(t) /\ ~MentionsInstitution(t) /\ HasPlanWord(t))
                   => ret.external_planned
            /\ (HasScholWord(t) /\ ~MentionsInstitution(t) /\ ~HasPlanWord(t))
                   => ret.external_confirmed

\* A text with a scholarship keyword, the institution's name and a planning
\* word has been classified.
C8_Witness ==
    /\ pc = "parse_return"
    /\ HasScholWord(clean_text(arg))
    /\ MentionsInstitution(clean_text(arg))
    /\ HasPlanWord(clean_text(arg))
    /\ ret.asu_school

-----------------------------------------------------------------------------
(* Properties of score_row *)

Scored == pc = "score_return"

\* C1: whatever facts the record yields, the Score score_row returns lies in
\* 0..100.
C1_ScoreClamped ==
    Scored => (0 <= ret.Score /\ ret.Score <= 100)

\* A record whose points add up to more than 100, and one whose points add up
\* to less than 0, have been scored.
C1_WitnessHigh ==
    Scored /\ RowScore(arg, current_year) > 100 /\ ret.Score = 100

C1_WitnessLow ==
    Scored /\ RowScore(arg, current_year) < 0 /\ ret.Score = 0

\* The region flag of the scored record.
RegionFlagOf(row) == country_priority_flag(row.Country).is_region_top

\* C2: the Category is the one fixed by (Score, region flag): with the flag,
\* >= 70 is the top-priority-region category and anything lower the
\* region-weak category; without it, >= 70 is top-priority-financial, 50..69
\* high potential, 35..49 medium potential and below 35 low priority.
C2_CategoryByThreshold ==
    Scored =>
        LET sc == ret.Score
            r  == RegionFlagOf(arg)
        IN  /\ (r /\ sc >= 70)
               <=> ret.Category = "Top priority (Canada / US / Europe / Caribbean)"
            /\ (r /\ sc < 70)
               <=> ret.Category
                     = "High potential (Canada / US / Europe / Caribbean - funding weaker)"
            /\ (~r /\ sc >= 70) <=> ret.Category = "Top priority (Financially strong)"
            /\ (~r /\ sc \in 50..69) <=> ret.Category = "High potential"
            /\ (~r /\ sc \in 35..49) <=> ret.Category = "Medium potential"
            /\ (~r /\ sc < 35) <=> ret.Category = "Low / scholarship-dependent"

\* A record without the region flag has scored exactly 70 and is top priority.
C2_Witness ==
    /\ Scored /\ ~RegionFlagOf(arg) /\ ret.Score = 70
    /\ ret.Category = "Top priority (Financially strong)"

\* The place of a reason in the fixed order of the rule categories:
\* self 1, family 2, loan 3, external confirmed 4, external planned 5,
\* institution dependency 6, age/degree 7, region 8, statement penalty 9.
ReasonRank(reason) ==
    LET text == reason[1]
    IN  CASE text = "Self funding from own work/savings" -> 1
          [] text = "Parent/Family financial support identified" -> 2
          [] text = "Private / bank loan arranged or intended" -> 3
          [] text = "Confirmed scholarship/bursary from external source" -> 4
          [] text = "Plans to apply for external scholarship/bursary" -> 5
          [] text = "Depends on scholarship from ASU/school" -> 6
          [] text \in { "Age unknown (no points applied)",
                        "Has degree and age >= 24",
                        "Has degree and age 21-23",
                        "Age >= 24 without degree (may be financially independent)",
                        "Has degree but age {age} (<21) - no maturity bonus",
                        "No degree and age {age} - no maturity bonus" } -> 7
          [] text \in { "From Canada - top priority region",
                        "From USA - top priority region",
                        "From Europe - top priority region",
                        "From Caribbean - top priority region" } -> 8
          [] text = "Personal statement suggests need for ASU scholarship" -> 9

\* The rule categories a scored record triggered (age/degree always gives a
\* reason).
Triggered(row, out) ==
    (IF out.HasSelfSupport THEN { 1 } ELSE {})
      \cup (IF out.HasFamilySupport THEN { 2 } ELSE {})
      \cup (IF out.HasPrivateLoan THEN { 3 } ELSE {})
      \cup (IF out.HasExternalScholarshipConfirmed THEN { 4 } ELSE {})
      \cup (IF out.HasExternalScholarshipPlanned THEN { 5 } ELSE {})
      \cup (IF out.HasASUScholarDependency THEN { 6 } ELSE {})
      \cup { 7 }
      \cup (IF RegionFlagOf(row) THEN { 8 } ELSE {})
      \cup (IF personal_statement_requests_school_scholarship(row.PersonalStatement)
            THEN { 9 } ELSE {})

\* C7: the reasons of a scored record follow the fixed category order, one
\* reason for each category the record triggered and no other, each once.
C7_ReasonsInCategoryOrder ==
    Scored =>
        LET rs == ret.Reasons
        IN  /\ \A i \in 1..(Len(rs) - 1) : ReasonRank(rs[i]) < ReasonRank(rs[i + 1])
            /\ { ReasonRank(rs[i]) : i \in 1..Len(rs) } = Triggered(arg, ret)

\* A record has been scored whose family support comes from Other Sources
\* alone and which has both an age/degree and a region reason, eight reasons
\* in all.
C7_Witness ==
    /\ Scored
    /\ Len(ret.Reasons) = 8
    /\ ~has_family_support_text(arg.FamilySupport)
    /\ ret.HasFamilySupport

\* The points of the age/degree rule.
AgeDegreePoints(age, degree) ==
    IF age = AgeNone THEN 0
    ELSE IF degree /\ age >= 24 THEN 17
    ELSE IF degree /\ age \in 21..23 THEN 12
    ELSE IF ~degree /\ age >= 24 THEN 7
    ELSE 0

\* The sum of the fixed weights of the categories a record triggered, each
\* counted once.
WeightSum(row, out) ==
    (IF out.HasSelfSupport THEN 18 ELSE 0)
      + (IF out.HasFamilySupport THEN 28 ELSE 0)
      + (IF out.HasPrivateLoan THEN 24 ELSE 0)
      + (IF out.HasExternalScholarshipConfirmed THEN 14 ELSE 0)
      + (IF out.HasExternalScholarshipPlanned THEN 8 ELSE 0)
      + (IF out.HasASUScholarDependency THEN -15 ELSE 0)
      + AgeDegreePoints(out.ComputedAge, has_degree_text(deg_text(row)))
      + (IF RegionFlagOf(row) THEN 40 ELSE 0)
      + (IF personal_statement_requests_school_scholarship(row.PersonalStatement)
         THEN -10 ELSE 0)

\* C9: the Score is the sum of the weights of the triggered categories, each
\* counted once per record (family once even when both Parent/Family Support
\* and Other Sources assert it, each scholarship fact once even when both
\* source fields assert it), clamped to 0..100.
C9_ScoreIsClampedWeightSum ==
    Scored =>
        LET sum == WeightSum(arg, ret)
        IN  ret.Score = (IF sum < 0 THEN 0 ELSE IF sum > 100 THEN 100 ELSE sum)

\* A record whose two family fields both assert family support, and whose two
\* scholarship fields both say "planned", has been scored: 28 + 8.
C9_Witness ==
    /\ Scored
    /\ has_family_support_text(arg.FamilySupport)
    /\ has_family_support_text(arg.OtherSources)
    /\ parse_scholarship_text(arg.ThirdParty).external_planned
    /\ parse_scholarship_text(arg.OtherSources).external_planned
    /\ ret.Score = 36

-----------------------------------------------------------------------------
(* Properties of the dedup block *)

\* The block has run once: df_before_dedup is the sheet as read, df what is
\* left of it.
Deduped == pc = "deduped"

IdxOf(rows) == { rows[i].idx : i \in 1..Len(rows) }
InputRow(i) == df_before_dedup[CHOOSE k \in 1..Len(df_before_dedup) :
                                  df_before_dedup[k].idx = i]

\* The submission time of a row of the sheet: its parsed timestamp, and 0
\* (before every date) when the sheet has no time column or the cell is no
\* date.
HasValidTime(row) ==
    time_col \in columns /\ to_datetime_coerce(row.DateCreated) # NaT
Recency(row) ==
    IF HasValidTime(row) THEN TimeOrd(to_datetime_coerce(row.DateCreated)) ELSE 0

\* a was submitted after b: a later timestamp, or the same and later in the
\* file
After(a, b) ==
    Recency(a) > Recency(b) \/ (Recency(a) = Recency(b) /\ a.idx > b.idx)

\* C3: of the rows of the sheet that share an email, one is kept: the one
\* with the greatest timestamp and, among equal timestamps, the last in the
\* file.
C3_KeepsMostRecentPerEmail ==
    Deduped =>
        \A i \in IdxOf(df_before_dedup) :
            LET r     == InputRow(i)
                group == { j \in IdxOf(df_before_dedup) : InputRow(j).Email = r.Email }
                kept  == group \cap IdxOf(df)
            IN  ~no_email_mask(r) =>
                    /\ Cardinality(kept) = 1
                    /\ \A k \in kept : \A j \in group \ { k } : After(InputRow(k), InputRow(j))

\* C4: the rows without an email are de-duplicated by (name, birth date)
\* alone: for every (name, birth date) among them exactly one such row is
\* kept, so two of them with different names or birth dates are both kept.
C4_NoEmailRowsKeptPerNameDob ==
    Deduped =>
        \A i \in IdxOf(df_before_dedup) :
            LET r     == InputRow(i)
                group == { j \in IdxOf(df_before_dedup) :
                             /\ no_email_mask(InputRow(j))
                             /\ InputRow(j).Name = r.Name
                             /\ InputRow(j).DOB = r.DOB }
            IN  no_email_mask(r) => Cardinality(group \cap IdxOf(df)) = 1

\* C5: two rows whose emails are equal after trimming and lower-casing are
\* one applicant: no two kept rows have such emails.
C5_OneRowPerNormalizedEmail ==
    Deduped =>
        \A i, j \in 1..Len(df) :
            (i # j /\ ~no_email_mask(df[i]) /\ ~no_email_mask(df[j]))
                => lower(strip(df[i].Email)) # lower(strip(df[j].Email))

\* C6: the block run on what it left removes no row and leaves the same rows.
C6_DedupIdempotent ==
    [][(pc = "deduped" /\ pc' = "deduped_again")
          => (dedup_count' = 0 /\ { df'[i] : i \in 1..Len(df') } = { df[i] : i \in 1..Len(df) })]_vars

\* The block has run a second time on a frame of two rows, one with and one
\* without an email, that the first run had cut down from a sheet of three
\* rows with a time column.
C6_Witness ==
    /\ pc = "deduped_again"
    /\ time_col \in columns
    /\ Len(df) = 2
    /\ 2 \in IdxOf(df)
    /\ \E i, j \in 1..2 : no_email_mask(df[i]) /\ ~no_email_mask(df[j])
    /\ dedup_count = 0

\* C10: with a time column, a row whose timestamp does not parse is not the
\* one kept for its email when another row with that email has a timestamp
\* that parses.
C10_UnparseableTimeNeverKept ==
    (Deduped /\ time_col \in columns) =>
        \A i \in IdxOf(df) :
            (~no_email_mask(InputRow(i)) /\ ~HasValidTime(InputRow(i)))
                => \A j \in IdxOf(df_before_dedup) :
                       InputRow(j).Email = InputRow(i).Email => ~HasValidTime(InputRow(j))

AgeResolved == pc = "age_return" /\ ret # AgeNone

\* C11: an age that normalize_age resolves (a return value other than None)
\* lies in 10..80; an input that would give an age outside that range, such as
\* a bare birth year of 1900 or of the current year, gives None.
C11_ResolvedAgeInPlausibleRange ==
    AgeResolved => (10 <= ret /\ ret <= 80)

\* a cell that holds a value: text that is not empty (an absent column reads
\* as None, a blank cell as NaN)
HoldsValue(v) == IsStr(v) /\ v # << >>

\* the value of the first of Degree, Degree (2), Degree (3) that holds one
FirstAlias(row) ==
    IF HoldsValue(row.Degree) THEN row.Degree
    ELSE IF HoldsValue(row.Degree2) THEN row.Degree2
    ELSE row.Degree3

\* the age and degree reason of the result is one of the "Has degree" reasons
ScoredAsHavingDegree(out) ==
    \E i \in 1..Len(out.Reasons) :
        out.Reasons[i][1] \in { "Has degree and age >= 24",
                               "Has degree and age 21-23",
                               "Has degree but age {age} (<21) - no maturity bonus" }

\* C12: the degree fact comes from the first of Degree, Degree (2), Degree (3)
\* that holds a value: a record of known age is scored as having a degree
\* exactly when that value names a qualification, so also when Degree is
\* absent, NaN or empty and Degree (2) or Degree (3) names one.
C12_DegreeFromFirstAliasWithValue ==
    (Scored /\ ret.ComputedAge # AgeNone) =>
        (ScoredAsHavingDegree(ret) <=> has_degree_text(FirstAlias(arg)))

====
